---------------------------- MODULE Spec2Model ----------------------------
(***************************************************************************)
(* A model of the compliance utilities: the shell command runner, the git  *)
(* file resolvers, the common compliance driver and the concrete checks.   *)
(*                                                                         *)
(* Text (a program's standard output, a path, a percentage) is a sequence  *)
(* of one-character strings, so that splitting, matching and parsing are   *)
(* computed character by character as the Python code computes them.       *)
(* Every operation of the program is synchronous and runs to completion    *)
(* in one process: each is one action, taken from pc = "idle", with the    *)
(* inputs and the outside world chosen by \E. The main functions are       *)
(* taken phase by phase: the start, the Resolve phase and the Check phase. *)
(***************************************************************************)
EXTENDS Integers, Sequences, FiniteSets, TLC

VARIABLES
    pc,                      \* "idle" before the operation, its place after it
    command,                 \* execute_shell_command: what the child process does
    is_check_for_exit_code,  \* execute_shell_command: its second parameter
    cmd_output,              \* execute_shell_command: what the call produced
    files_list,              \* filter_files: the list passed in
    python_files,            \* filter_files: the list returned
    python_files_again,      \* filter_files applied to its own result
    repo,                    \* what the git commands print and return here
    branches,                \* get_diff_between_branches: source and target
    change_list,             \* the resolver's result and the commands it ran
    args,                    \* Compliance.get_files_list: the parsed options
    resolved,                \* Compliance.get_files_list: its result
    code_validators,         \* CodeCompliance: the validator names asked for
    lint_world,              \* what flake8 and pylint find in the files
    lint,                    \* CodeCompliance.check: how it ended
    pytest,                  \* what pytest --cov reports and returns
    coverage,                \* check_coverage: the runs, the violations, the exit
    sources,                 \* what each file of the design check imports and calls
    default_checks,          \* DesignCompliance.__init__: its parameter
    design,                  \* DesignCompliance.check: how it ended
    kwargs,                  \* check_for_other_compliance: the keys it is passed
    plugin_scripts,          \* os.listdir of the plugins' folder
    plugin_world,            \* what importing each plugin does
    other_compliance,        \* check_for_other_compliance: how it ended
    radon,                   \* what radon finds in each file: its blocks, or an error
    complexity,              \* CodeComplexity.check: how it ended
    pep257,                  \* what the docstring tool prints and returns
    doc,                     \* DocCompliance.check: how it ended
    program,                 \* main: the check that is run
    phases,                  \* main: the phases executed so far, in order
    exit_status              \* main: the exit status of the process

shellVars == <<command, is_check_for_exit_code, cmd_output>>
filterVars == <<files_list, python_files, python_files_again>>
gitVars == <<repo, branches, change_list>>
driverVars == <<args, resolved>>
lintVars == <<code_validators, lint_world, lint>>
coverageVars == <<pytest, coverage>>
designVars == <<sources, default_checks, design>>
pluginVars == <<kwargs, plugin_scripts, plugin_world, other_compliance>>
complexityVars == <<radon, complexity>>
docVars == <<pep257, doc>>
mainVars == <<program, phases, exit_status>>
laterVars == <<pluginVars, complexityVars, docVars, mainVars>>
vars ==
    <<pc, shellVars, filterVars, gitVars, driverVars, lintVars, coverageVars,
      designVars, laterVars>>

\* Python's None where a text may be absent: no text, since a text is a
\* sequence of one-character strings.
None == <<"None">>

\* No exception was raised.
NoException == "none"

\* The line separator of split('\n').
NL == "\n"

\* ''.join(lines): the lines one after the other.
RECURSIVE Join(_)
Join(lines) ==
    IF lines = <<>> THEN <<>> ELSE Head(lines) \o Join(Tail(lines))

\* All texts over an alphabet, up to a length.
Texts(alphabet, n) == UNION {[1..k -> alphabet] : k \in 0..n}

(***************************************************************************)
(* helper_utils.execute_shell_command                                      *)
(***************************************************************************)

\* str.split(sep) for a one-character separator: the pieces between the
\* separators, empty pieces included ("" splits to [""]).
RECURSIVE Split(_, _)
Split(text, sep) ==
    IF \A i \in 1..Len(text) : text[i] # sep
    THEN <<text>>
    ELSE LET i == CHOOSE k \in 1..Len(text) :
                      text[k] = sep /\ \A j \in 1..(k - 1) : text[j] # sep
         IN  <<SubSeq(text, 1, i - 1)>> \o Split(SubSeq(text, i + 1, Len(text)), sep)

\* A buggy filter that also drops the lines str.strip() would empty.
FilterNoneStripped(lines) ==
    SelectSeq(lines, LAMBDA l : \E i \in 1..Len(l) : l[i] \notin {" ", "\t"})

\* filter(None, lines): the items that are truthy, i.e. the non-empty strings.
FilterNone(lines) == SelectSeq(lines, LAMBDA l : l # <<>>)

\* A buggy check_returncode that ignores is_check_for_exit_code.
MustRaiseAlways(returncode, check) == returncode # 0

\* cmd.check_returncode() under `if is_check_for_exit_code`.
MustRaise(returncode, check) == check /\ returncode # 0

\* The call: CalledProcessError (with the exit code) or the list of lines.
ExecuteShellCommand(stdout, returncode, check) ==
    IF MustRaise(returncode, check)
    THEN [raised |-> "CalledProcessError", returncode |-> returncode, lines |-> <<>>]
    ELSE [raised |-> NoException, returncode |-> returncode,
          lines |-> FilterNone(Split(stdout, NL))]

\* Bounds and inputs of the runner's specification.
MaxStdoutLen == 4
StdoutAlphabet == {"a", " ", NL}
ReturnCodes == {0, 1, 128}

NoCommand == [stdout |-> <<>>, returncode |-> 0]
NoOutput == [raised |-> NoException, returncode |-> 0, lines |-> <<>>]

ShellIdle ==
    /\ command = NoCommand
    /\ is_check_for_exit_code = TRUE
    /\ cmd_output = NoOutput

execute_shell_command(stdout, returncode, check) ==
    /\ command' = [stdout |-> stdout, returncode |-> returncode]
    /\ is_check_for_exit_code' = check
    /\ cmd_output' = ExecuteShellCommand(stdout, returncode, check)
    /\ pc' = "done"

(***************************************************************************)
(* helper_utils.filter_files                                               *)
(***************************************************************************)

\* re.compile(r".*.py$").match(path): the end of the match, if there is one.
\* The match starts at the first character; "." is any character but a
\* newline; "$" is the end of the text or the place before a last newline.
MatchEnds(path) ==
    {k \in 3..Len(path) :
        /\ \/ k = Len(path)
           \/ k = Len(path) - 1 /\ path[Len(path)] = NL
        /\ path[k - 1] = "p" /\ path[k] = "y"
        /\ \A i \in 1..(k - 2) : path[i] # NL}

RegexpMatch(path) == MatchEnds(path) # {}

\* A buggy m.group(1) of r"(.*).py$": the text before the last three characters.
Group1(path) == SubSeq(path, 1, (CHOOSE k \in MatchEnds(path) : TRUE) - 3)

\* m.group(0): the matched text.
Group0(path) == SubSeq(path, 1, CHOOSE k \in MatchEnds(path) : TRUE)

\* [m.group(0) for m in map(regexp.match, files_list) if m is not None]
FilterFiles(files) ==
    LET matched == SelectSeq(files, RegexpMatch)
    IN  [i \in 1..Len(matched) |-> Group0(matched[i])]

\* Bounds and inputs of the filter's specification: every path up to
\* MaxPathLen alone, and every list up to MaxListLen of the sample paths.
MaxPathLen == 4
MaxListLen == 3
PathAlphabet == {"a", ".", "p", "y", NL}
SamplePaths ==
    { <<"a", ".", "p", "y">>, <<"a", "p", "y">>, <<"a", ".", "p", "y", NL>>,
      <<"a", ".", "p", "y", "c">>, <<".", "p", "y">> }
FilterInputs ==
    {<<p>> : p \in Texts(PathAlphabet, MaxPathLen)}
        \cup UNION {[1..n -> SamplePaths] : n \in 0..MaxListLen}

FilterIdle ==
    /\ files_list = <<>>
    /\ python_files = <<>>
    /\ python_files_again = <<>>

filter_files(files) ==
    /\ files_list' = files
    /\ python_files' = FilterFiles(files)
    /\ python_files_again' = FilterFiles(FilterFiles(files))
    /\ pc' = "done"

(***************************************************************************)
(* helper_utils: the git file resolvers                                    *)
(***************************************************************************)

\* The git commands, as they are logged when run: the sub-command and, for a
\* diff of two branches, its revision range.
ProbeCmd == [git |-> "rev-parse --is-inside-work-tree", rev |-> <<>>]
HeadCmd == [git |-> "rev-parse --abbrev-ref HEAD", rev |-> <<>>]
StagedCmd == [git |-> "diff HEAD --name-only --cached", rev |-> <<>>]
DiffCmd(source, target) ==
    [git |-> "diff --name-only", rev |-> source \o <<".", ".", ".">> \o target]

IsDiff(cmd) == cmd.git \in {StagedCmd.git, DiffCmd(<<>>, <<>>).git}

\* What a resolver hands back: the exception raised (with the exit code of a
\* CalledProcessError), or the value returned; and the commands it ran.
Raised(exception, returncode, cmds) ==
    [raised |-> exception, returncode |-> returncode, value |-> <<>>, cmds |-> cmds]
Returned(value, cmds) ==
    [raised |-> NoException, returncode |-> 0, value |-> value, cmds |-> cmds]

\* is_inside_git_repo_dir(): the probe's joined output is 'true'.
IsInsideGitRepoDir(r) ==
    LET out == ExecuteShellCommand(r.probe.stdout, r.probe.returncode, TRUE)
    IN  IF out.raised # NoException
        THEN Raised(out.raised, out.returncode, <<ProbeCmd>>)
        ELSE Returned(Join(out.lines) = <<"t", "r", "u", "e">>, <<ProbeCmd>>)

\* get_current_branch()
GetCurrentBranch(r) ==
    LET inside == IsInsideGitRepoDir(r)
        out == ExecuteShellCommand(r.head.stdout, r.head.returncode, TRUE)
        cmds == inside.cmds \o <<HeadCmd>>
    IN  IF inside.raised # NoException THEN inside
        ELSE IF ~inside.value
        THEN Raised("NotValidGitRepoException", 0, inside.cmds)
        ELSE IF out.raised # NoException
        THEN Raised(out.raised, out.returncode, cmds)
        ELSE Returned(Join(out.lines), cmds)

\* get_files_to_be_committed()
GetFilesToBeCommitted(r) ==
    LET inside == IsInsideGitRepoDir(r)
        out == ExecuteShellCommand(r.staged.stdout, r.staged.returncode, TRUE)
        cmds == inside.cmds \o <<StagedCmd>>
    IN  IF inside.raised # NoException THEN inside
        ELSE IF ~inside.value
        THEN Raised("NotValidGitRepoException", 0, inside.cmds)
        ELSE IF out.raised # NoException
        THEN Raised(out.raised, out.returncode, cmds)
        ELSE Returned(out.lines, cmds)

\* A buggy comparison that never finds the branches the same.
SameBranchNever(source, target) == FALSE

\* source_branch == target_branch
SameBranch(source, target) == source = target

\* get_diff_between_branches(source_branch, target_branch)
GetDiffBetweenBranches(r, source_branch, target_branch) ==
    LET inside == IsInsideGitRepoDir(r)
        source == IF source_branch = None THEN <<"d", "e", "v">> ELSE source_branch
        current == IF target_branch = None
                   THEN GetCurrentBranch(r)
                   ELSE Returned(target_branch, <<>>)
        target == current.value
        out == ExecuteShellCommand(r.diff.stdout, r.diff.returncode, TRUE)
        before == inside.cmds \o current.cmds
        cmds == before \o <<DiffCmd(source, target)>>
    IN  IF inside.raised # NoException THEN inside
        ELSE IF ~inside.value
        THEN Raised("NotValidGitRepoException", 0, inside.cmds)
        ELSE IF current.raised # NoException
        THEN Raised(current.raised, current.returncode, before)
        ELSE IF SameBranch(source, target) THEN Returned(<<>>, before)
        ELSE IF out.raised # NoException
        THEN Raised(out.raised, out.returncode, cmds)
        ELSE Returned(out.lines, cmds)

\* What git prints and returns in the directory the program runs in: the
\* work-tree probe inside a work tree, inside a .git directory and outside
\* any repository; HEAD on a branch and in a repository with no commit; a
\* diff with files, with none, and of a revision git does not know.
Dev == <<"d", "e", "v">>
Ft == <<"f", "t">>
ProbeOutcomes ==
    { [stdout |-> <<"t", "r", "u", "e", NL>>, returncode |-> 0],
      [stdout |-> <<"f", "a", "l", "s", "e", NL>>, returncode |-> 0],
      [stdout |-> <<>>, returncode |-> 128] }
HeadOutcomes ==
    { [stdout |-> Dev \o <<NL>>, returncode |-> 0],
      [stdout |-> Ft \o <<NL>>, returncode |-> 0],
      [stdout |-> <<"H", "E", "A", "D", NL>>, returncode |-> 128] }
DiffOutcomes ==
    { [stdout |-> <<"a", ".", "p", "y", NL, "b", NL>>, returncode |-> 0],
      [stdout |-> <<>>, returncode |-> 0],
      [stdout |-> <<>>, returncode |-> 128] }
Repos ==
    [probe : ProbeOutcomes, head : HeadOutcomes, staged : DiffOutcomes,
     diff : DiffOutcomes]
BranchArgs == {None, Dev, Ft}

NoRepo ==
    [probe |-> [stdout |-> <<>>, returncode |-> 0],
     head |-> [stdout |-> <<>>, returncode |-> 0],
     staged |-> [stdout |-> <<>>, returncode |-> 0],
     diff |-> [stdout |-> <<>>, returncode |-> 0]]

GitIdle ==
    /\ repo = NoRepo
    /\ branches = <<None, None>>
    /\ change_list = Returned(<<>>, <<>>)

get_files_to_be_committed(r) ==
    /\ repo' = r
    /\ branches' = <<None, None>>
    /\ change_list' = GetFilesToBeCommitted(r)
    /\ pc' = "staged"

get_diff_between_branches(r, source, target) ==
    /\ repo' = r
    /\ branches' = <<source, target>>
    /\ change_list' = GetDiffBetweenBranches(r, source, target)
    /\ pc' = "diffed"

(***************************************************************************)
(* compliance_check.Compliance: the common driver                          *)
(***************************************************************************)

\* An option that was not given. argparse leaves None; an option given with
\* nargs=2 or nargs=1 is a list of two or of one, never an empty list, so the
\* empty list stands for None (both are false in an `if`).
NotGiven == <<>>

\* Compliance.parse_args: every namespace the parser returns. The flag is a
\* store_true; -pre-merge takes two branch names; -path takes one path.
PathArgs == { <<"a", ".", "p", "y">>, <<"b">>, <<>> }
ParsedArgs ==
    [pre_commit_check : BOOLEAN,
     pre_merge_check : {NotGiven} \cup {<<s, t>> : s \in {Dev, Ft}, t \in {Dev, Ft}},
     path : {NotGiven} \cup {<<p>> : p \in PathArgs}]

\* The truth of a list in an `if`.
Truthy(list) == list # <<>>

\* A buggy chain that tests the path first.
ResolveBranchPathFirst(a) ==
    IF Truthy(a.path) THEN "path"
    ELSE IF a.pre_commit_check THEN "pre_commit"
    ELSE IF Truthy(a.pre_merge_check) THEN "pre_merge"
    ELSE "none"

\* A buggy chain that ends in `else: get_files_to_be_committed()`.
ResolveBranchElseStaged(a) ==
    IF a.pre_commit_check THEN "pre_commit"
    ELSE IF Truthy(a.pre_merge_check) THEN "pre_merge"
    ELSE IF Truthy(a.path) THEN "path"
    ELSE "pre_commit"

\* The if / elif / elif of get_files_list: the branch that runs.
ResolveBranch(a) ==
    IF a.pre_commit_check THEN "pre_commit"
    ELSE IF Truthy(a.pre_merge_check) THEN "pre_merge"
    ELSE IF Truthy(a.path) THEN "path"
    ELSE "none"

\* Compliance.get_files_list: the resolver's result, or the paths given, or
\* the empty list it starts from; with the branches that ran.
GetFilesList(a, r) ==
    LET branch == ResolveBranch(a)
        found ==
            CASE branch = "pre_commit" -> GetFilesToBeCommitted(r)
              [] branch = "pre_merge" ->
                    GetDiffBetweenBranches(r, a.pre_merge_check[1], a.pre_merge_check[2])
              [] branch = "path" -> Returned(a.path, <<>>)
              [] OTHER -> Returned(<<>>, <<>>)
    IN  [raised |-> found.raised, returncode |-> found.returncode,
         value |-> found.value, cmds |-> found.cmds,
         ran |-> IF branch = "none" THEN {} ELSE {branch}]

NoArgs == [pre_commit_check |-> FALSE, pre_merge_check |-> NotGiven, path |-> NotGiven]

DriverIdle ==
    /\ args = NoArgs
    /\ resolved = [raised |-> NoException, returncode |-> 0, value |-> <<>>,
                   cmds |-> <<>>, ran |-> {}]

get_files_list(a, r) ==
    /\ args' = a
    /\ repo' = r
    /\ resolved' = GetFilesList(a, r)
    /\ pc' = "resolved"

(***************************************************************************)
(* code_compliance_check.CodeCompliance: the lint check                    *)
(***************************************************************************)

\* config.CODE_VALIDATOR_TO_MODULE_MAP
CODE_VALIDATOR_TO_MODULE_MAP ==
    [flake8 |-> "flake8.api.legacy", pylint |-> "pylint.epylint"]

\* A buggy guard that lets every name through.
AllSupportedUnchecked(validators) == TRUE

\* all(validators in CODE_VALIDATOR_TO_MODULE_MAP for validators in self.code_validators)
AllSupported(validators) ==
    \A i \in 1..Len(validators) : validators[i] \in DOMAIN CODE_VALIDATOR_TO_MODULE_MAP

\* _run_flake8_validator: sys.exit(1) when the report counts an error.
RunFlake8Validator(w) == w.flake8_errors > 0

\* The truth of the pylint_err py_run returns: a StringIO object, which is
\* true in an `if` whatever it holds.
PylintErrTruthy == TRUE

\* _run_pylint_validator: the set of reports collected over the files, one
\* ('\n'.join(errors), here the number of error lines joined) for each file
\* with `pylint_err or errors`; sys.exit(1) when the set is not empty.
PylintErrorReport(w) ==
    {w.pylint_errors[f] : f \in {g \in 1..Len(w.pylint_errors) :
                                    PylintErrTruthy \/ w.pylint_errors[g] > 0}}
RunPylintValidator(w) == PylintErrorReport(w) # {}

\* self.validator_to_function_map[validator](validator_module, files_list):
\* whether the back-end ends the process with sys.exit(1).
ValidatorExits(validator, w) ==
    IF validator = "flake8" THEN RunFlake8Validator(w) ELSE RunPylintValidator(w)

\* The loop of CodeCompliance.check from the i-th validator on, with the
\* back-ends invoked so far.
RECURSIVE RunValidators(_, _, _, _)
RunValidators(validators, i, w, invoked) ==
    IF i > Len(validators)
    THEN [raised |-> NoException, exit_status |-> 0, invoked |-> invoked]
    ELSE IF validators[i] \notin DOMAIN CODE_VALIDATOR_TO_MODULE_MAP
    THEN [raised |-> "ComplianceViolationException", exit_status |-> 1,
          invoked |-> invoked]
    ELSE IF ValidatorExits(validators[i], w)
    THEN [raised |-> "SystemExit", exit_status |-> 1,
          invoked |-> Append(invoked, validators[i])]
    ELSE RunValidators(validators, i + 1, w, Append(invoked, validators[i]))

\* CodeCompliance.check(files_list). An exception that nothing catches ends
\* the process with status 1, as sys.exit(1) does.
CodeComplianceCheck(validators, w) ==
    IF ~AllSupported(validators)
    THEN [raised |-> "ComplianceViolationException", exit_status |-> 1,
          invoked |-> <<>>]
    ELSE RunValidators(validators, 1, w, <<>>)

\* Bounds and inputs of the lint check's specification: the names asked for,
\* the errors flake8 counts, and the error lines pylint prints per file.
MaxValidators == 3
MaxLintFiles == 2
ValidatorNames == {"flake8", "pylint", "eslint"}
LintWorlds ==
    [flake8_errors : {0, 2},
     pylint_errors : UNION {[1..n -> {0, 1}] : n \in 0..MaxLintFiles}]

LintIdle ==
    /\ code_validators = <<>>
    /\ lint_world = [flake8_errors |-> 0, pylint_errors |-> <<>>]
    /\ lint = [raised |-> NoException, exit_status |-> 0, invoked |-> <<>>]

code_compliance_check(validators, w) ==
    /\ code_validators' = validators
    /\ lint_world' = w
    /\ lint' = CodeComplianceCheck(validators, w)
    /\ pc' = "linted"

(***************************************************************************)
(* coverage_check.CoverageCheckCompliance.check_coverage                   *)
(***************************************************************************)

\* config.IGNORE_LIST
IGNORE_LIST ==
    { <<"t", "e", "s", "t", "s">>, <<"u", "n", "i", "t", "T", "e", "s", "t", "s">>,
      <<"m", "o", "c", "k", "L", "i", "b">>, <<"s", "a", "m", "p", "l", "e", "s">>,
      <<"t", "e", "m", "p", "l", "a", "t", "e", "s">>, <<"i", "m", "a", "g", "e", "s">>,
      <<"d", "o", "c", "s">> }

\* config.CUT_OFF_CODE_COVERAGE_PCT
CUT_OFF_CODE_COVERAGE_PCT == 80

\* The elements of a finite set, one after the other.
RECURSIVE SetToSeq(_)
SetToSeq(set) ==
    IF set = {} THEN <<>>
    ELSE LET x == CHOOSE y \in set : TRUE IN <<x>> \o SetToSeq(set \ {x})

Range(seq) == {seq[i] : i \in 1..Len(seq)}

\* os.path.dirname(path): the text before the last '/', without the slashes
\* that end it unless it is made of slashes only.
RECURSIVE RStripSlash(_)
RStripSlash(text) ==
    IF text # <<>> /\ text[Len(text)] = "/"
    THEN RStripSlash(SubSeq(text, 1, Len(text) - 1))
    ELSE text
Dirname(path) ==
    LET slashes == {i \in 1..Len(path) : path[i] = "/"}
        i == IF slashes = {} THEN 0
             ELSE CHOOSE k \in slashes : \A j \in slashes : j <= k
        head == SubSeq(path, 1, i)
    IN  IF head # <<>> /\ (\E k \in 1..Len(head) : head[k] # "/")
        THEN RStripSlash(head)
        ELSE head

\* str.split(): the runs of characters that are not whitespace.
Whitespace == {" ", "\t", NL}
RECURSIVE SplitWhitespace(_)
SplitWhitespace(text) ==
    IF text = <<>> THEN <<>>
    ELSE IF text[1] \in Whitespace THEN SplitWhitespace(Tail(text))
    ELSE LET stops == {i \in 1..Len(text) : text[i] \in Whitespace}
             n == IF stops = {} THEN Len(text)
                  ELSE (CHOOSE k \in stops : \A j \in stops : k <= j) - 1
         IN  <<SubSeq(text, 1, n)>> \o SplitWhitespace(SubSeq(text, n + 1, Len(text)))

\* int(text): the value of an optional sign and decimal digits, or a
\* ValueError.
Digits == <<"0", "1", "2", "3", "4", "5", "6", "7", "8", "9">>
DigitValue(c) == (CHOOSE d \in 1..10 : Digits[d] = c) - 1
RECURSIVE DecimalValue(_)
DecimalValue(text) ==
    IF text = <<>> THEN 0
    ELSE 10 * DecimalValue(SubSeq(text, 1, Len(text) - 1)) + DigitValue(text[Len(text)])
ParseInt(text) ==
    LET signed == text # <<>> /\ text[1] \in {"+", "-"}
        digits == IF signed THEN Tail(text) ELSE text
    IN  IF digits = <<>> \/ \E i \in 1..Len(digits) : digits[i] \notin Range(Digits)
        THEN [raised |-> "ValueError", value |-> 0]
        ELSE [raised |-> NoException,
              value |-> IF signed /\ text[1] = "-"
                        THEN 0 - DecimalValue(digits) ELSE DecimalValue(digits)]

\* What pytest --cov prints for a directory: a head line, a row for each
\* reported file of the directory, a TOTAL row and pytest's last line. The
\* report holds one percentage text for a file, whichever run prints it.
IsUnder(path, dir) ==
    \/ dir = <<>>
    \/ /\ Len(path) > Len(dir)
       /\ SubSeq(path, 1, Len(dir)) = dir
       /\ path[Len(dir) + 1] = "/"
ReportRow(name, pct) == name \o <<" ", " ", "5", " ", " ">> \o pct \o <<NL>>
PytestStdout(dir, w) ==
    LET names == SelectSeq(w.names, LAMBDA f : IsUnder(f, dir))
    IN  <<"N", "a", "m", "e", " ", "C", "o", "v", "e", "r", NL>>
          \o Join([i \in 1..Len(names) |-> ReportRow(names[i], w.report[names[i]])])
          \o ReportRow(<<"T", "O", "T", "A", "L">>, <<"8", "0", "%">>)
          \o <<NL, "1", " ", "p", "a", "s", "s", "e", "d", NL>>

\* dict((item.split()[0], item.split()[-1]) for item in coverage_list): the
\* pair of a later line replaces the pair of an earlier one with its key.
RECURSIVE DictOfColumns(_)
DictOfColumns(coverage_list) ==
    IF coverage_list = <<>> THEN <<>>
    ELSE LET n == Len(coverage_list)
             item == SplitWhitespace(coverage_list[n])
         IN  (item[1] :> item[Len(item)]) @@ DictOfColumns(SubSeq(coverage_list, 1, n - 1))

\* get_coverage(coverage_dir): the first and the last column of each line of
\* the output that holds a '%'; the exit code is not checked.
GetCoverage(dir, w) ==
    LET out == ExecuteShellCommand(PytestStdout(dir, w), w.returncode, FALSE)
    IN  DictOfColumns(SelectSeq(out.lines, LAMBDA l : \E i \in 1..Len(l) : l[i] = "%"))

\* A buggy collection that keeps a directory for each file, in a list.
CoverageDirsPerFile(change_set) == [i \in 1..Len(change_set) |-> Dirname(change_set[i])]

\* coverage_dir_set, in the order the loop goes through it.
CoverageDirs(change_set) ==
    SetToSeq({Dirname(change_set[i]) : i \in 1..Len(change_set)})

\* file_to_coverage_pct_map.update(...) over the directories.
RECURSIVE UpdateAll(_, _, _)
UpdateAll(map, dirs, w) ==
    IF dirs = <<>> THEN map
    ELSE UpdateAll(GetCoverage(Head(dirs), w) @@ map, Tail(dirs), w)

\* A buggy test that lets the ignored directories through.
IgnoredNever(file_name) == FALSE

\* file_dir_name.split('/')[-1] in cfg.IGNORE_LIST
Ignored(file_name) ==
    LET parts == Split(Dirname(file_name), "/")
    IN  parts[Len(parts)] \in IGNORE_LIST

\* A buggy comparison that flags the cut-off itself.
BelowCutOffInclusive(coverage_pct) == coverage_pct <= CUT_OFF_CODE_COVERAGE_PCT

\* coverage_pct < cfg.CUT_OFF_CODE_COVERAGE_PCT
BelowCutOff(coverage_pct) == coverage_pct < CUT_OFF_CODE_COVERAGE_PCT

\* int(file_to_coverage_pct_map[file_name][:-1])
CoveragePct(map, file_name) ==
    ParseInt(SubSeq(map[file_name], 1, Len(map[file_name]) - 1))

\* A buggy loop that counts a percentage it cannot parse as a violation.
MissingOrUnparsed(map, change_set) ==
    {f \in Range(change_set) :
        /\ ~Ignored(f)
        /\ f \in DOMAIN map
        /\ \/ CoveragePct(map, f).raised # NoException
           \/ BelowCutOff(CoveragePct(map, f).value)}

\* The files of the second loop that reach the comparison and fail it, and
\* those for which int() raises.
Missing(map, change_set) ==
    {f \in Range(change_set) :
        /\ ~Ignored(f)
        /\ f \in DOMAIN map
        /\ CoveragePct(map, f).raised = NoException
        /\ BelowCutOff(CoveragePct(map, f).value)}
Unparsed(map, change_set) ==
    {f \in Range(change_set) :
        /\ ~Ignored(f)
        /\ f \in DOMAIN map
        /\ CoveragePct(map, f).raised # NoException}

\* check_coverage(files_list)
CheckCoverage(files, w) ==
    LET change_set == FilterFiles(files)
        dirs == CoverageDirs(change_set)
        map == UpdateAll(<<>>, dirs, w)
        missing == Missing(map, change_set)
    IN  [runs |-> dirs,
         files_missing_coverage |->
            {f \o <<" ", "-", ">", " ">> \o map[f] : f \in missing},
         errors |-> Unparsed(map, change_set),
         exit_status |-> IF missing # {} THEN 1 ELSE 0]

\* Bounds and inputs of the coverage check's specification: the files of
\* the change, in the order git prints them, and what the report says of
\* the Python files among them: 79%, 80%, 87%, a text int() refuses, or
\* nothing.
MaxCoverageFiles == 3
CoverageFiles ==
    << <<"a", "/", "n", ".", "t", "x", "t">>,
       <<"a", "/", "t", "e", "s", "t", "s", "/", "u", ".", "p", "y">>,
       <<"a", "/", "x", ".", "p", "y">>,
       <<"a", "/", "y", ".", "p", "y">>,
       <<"b", "/", "z", ".", "p", "y">>,
       <<"s", ".", "p", "y">>,
       <<"t", "e", "s", "t", "s", "/", "t", ".", "p", "y">> >>
PctTexts ==
    { <<"7", "9", "%">>, <<"8", "0", "%">>, <<"8", "7", "%">>, <<"7", "x", "%">> }
Picked(indexes) ==
    LET all == [i \in 1..Len(CoverageFiles) |-> i]
        kept == SelectSeq(all, LAMBDA i : i \in indexes)
    IN  [i \in 1..Len(kept) |-> CoverageFiles[kept[i]]]
PytestWorlds(files) ==
    UNION { [names : {SelectSeq(files, LAMBDA f : f \in reported)},
             report : [reported -> PctTexts],
             returncode : {0, 1}] :
            reported \in SUBSET {f \in Range(files) : RegexpMatch(f)} }

NoPytest == [names |-> <<>>, report |-> <<>>, returncode |-> 0]
NoCoverage ==
    [runs |-> <<>>, files_missing_coverage |-> {}, errors |-> {}, exit_status |-> 0]

CoverageIdle ==
    /\ pytest = NoPytest
    /\ coverage = NoCoverage

check_coverage(files, w) ==
    /\ files_list' = files
    /\ pytest' = w
    /\ coverage' = CheckCoverage(files, w)
    /\ pc' = "covered"

(***************************************************************************)
(* design_compliance_check.DesignCompliance: the design check              *)
(***************************************************************************)

\* DesignCompliance.register, in the order the decorators fill it.
Register == <<"OtherComplianceCheck", "DebugEnabledCheck">>

\* The attributes of a DesignCompliance object that hold a list of checks:
\* the class's _default_checks and, when the constructor is given a list,
\* the _defaultTcChecks it sets.
CheckLists(given) ==
    ("_default_checks" :> <<"DebugEnabledCheck", "OtherComplianceCheck">>)
        @@ (IF Truthy(given) THEN "_defaultTcChecks" :> given ELSE <<>>)

\* The attribute check_files reads for the enabled checks.
EnabledChecksAttribute == "_defaultInfraChecks"

\* get_function_calls_from_file: the set of the names called.
GetFunctionCallsFromFile(source) == Range(source.calls)

\* check_if_debug_enabled: the messages printed for the file and whether it
\* ends the process with sys.exit(1).
CheckIfDebugEnabled(file_name, source) ==
    LET function_calls == GetFunctionCallsFromFile(source)
        debugging ==
            \/ source.imports \cap {"ipdb", "pdb"} # {}
            \/ function_calls \cap {"ipdb.set_trace", "pdb.set_trace"} # {}
        printing == "print" \in function_calls
        printed ==
            (IF debugging
             THEN <<[file |-> file_name, message |-> "has debugging enabled!"]>>
             ELSE <<>>)
              \o (IF printing
                  THEN <<[file |-> file_name, message |-> "contains print statements!"]>>
                  ELSE <<>>)
    IN  [raised |-> IF debugging \/ printing THEN "SystemExit" ELSE NoException,
         printed |-> printed]

\* check_for_other_compliance: kwargs['files_list'], a key check_files does
\* not pass, raises KeyError before any plugin is loaded.
KwargsKeys == {"file_name", "imported_modules", "function_calls"}
CheckForOtherCompliance(file_name, source) ==
    [raised |-> IF "files_list" \in KwargsKeys THEN NoException ELSE "KeyError",
     printed |-> <<>>]

\* call_registered(name, **kwargs)
CallRegistered(name, file_name, source) ==
    IF name = "DebugEnabledCheck"
    THEN CheckIfDebugEnabled(file_name, source)
    ELSE CheckForOtherCompliance(file_name, source)

\* check_files from the i-th file and the j-th registered name on, with the
\* messages printed and the checks called so far.
RECURSIVE CheckFiles(_, _, _, _, _, _)
CheckFiles(files, srcs, lists, i, j, sofar) ==
    IF i > Len(files)
    THEN [raised |-> NoException, exit_status |-> 0,
          printed |-> sofar.printed, called |-> sofar.called]
    ELSE IF j > Len(Register)
    THEN CheckFiles(files, srcs, lists, i + 1, 1, sofar)
    ELSE IF EnabledChecksAttribute \notin DOMAIN lists
    THEN [raised |-> "AttributeError", exit_status |-> 1,
          printed |-> sofar.printed, called |-> sofar.called]
    ELSE IF Register[j] \notin Range(lists[EnabledChecksAttribute])
    THEN CheckFiles(files, srcs, lists, i, j + 1, sofar)
    ELSE LET done == CallRegistered(Register[j], files[i], srcs[files[i]])
             now == [printed |-> sofar.printed \o done.printed,
                     called |-> Append(sofar.called, <<Register[j], files[i]>>)]
         IN  IF done.raised # NoException
             THEN [raised |-> done.raised, exit_status |-> 1,
                   printed |-> now.printed, called |-> now.called]
             ELSE CheckFiles(files, srcs, lists, i, j + 1, now)

\* DesignCompliance.check(files_list). An exception that nothing catches
\* ends the process with status 1, as sys.exit(1) does.
DesignComplianceCheck(files, srcs, given) ==
    IF Truthy(files)
    THEN CheckFiles(files, srcs, CheckLists(given), 1, 1,
                    [printed |-> <<>>, called |-> <<>>])
    ELSE [raised |-> NoException, exit_status |-> 0, printed |-> <<>>, called |-> <<>>]

\* Bounds and inputs of the design check's specification: the files, what
\* each imports and calls, and the list given to the constructor.
MaxDesignFiles == 2
DesignFileNames ==
    { <<"a", ".", "p", "y">>, <<"b", ".", "p", "y">>, <<"c", ".", "p", "y">> }
DesignSources ==
    [imports : {{}, {"pdb"}},
     calls : {<<>>, <<"len">>, <<"print">>, <<"print", "len", "print">>}]
DesignFileLists ==
    {files \in UNION {[1..n -> DesignFileNames] : n \in 0..MaxDesignFiles} :
        \A i, j \in 1..Len(files) : i # j => files[i] # files[j]}
DefaultChecksArgs ==
    {NotGiven, <<"DebugEnabledCheck">>, <<"DebugEnabledCheck", "OtherComplianceCheck">>}

DesignIdle ==
    /\ sources = <<>>
    /\ default_checks = NotGiven
    /\ design = [raised |-> NoException, exit_status |-> 0, printed |-> <<>>,
                 called |-> <<>>]

design_compliance_check(files, srcs, checks) ==
    /\ files_list' = files
    /\ sources' = srcs
    /\ default_checks' = checks
    /\ design' = DesignComplianceCheck(files, srcs, checks)
    /\ pc' = "designed"

(***************************************************************************)
(* helper_utils.get_plugins, load_plugin and the plugin sub-check          *)
(***************************************************************************)

COMPLIANCE_CHECK_PLUGINS_FOLDER ==
    <<"c", "o", "m", "p", "l", "i", "a", "n", "c", "e", "_", "c", "h", "e", "c", "k",
      "_", "p", "l", "u", "g", "i", "n", "s">>

\* str.startswith and str.endswith
StartsWith(text, prefix) ==
    Len(text) >= Len(prefix) /\ SubSeq(text, 1, Len(prefix)) = prefix
EndsWith(text, suffix) ==
    Len(text) >= Len(suffix)
        /\ SubSeq(text, Len(text) - Len(suffix) + 1, Len(text)) = suffix

\* '.'.join(script_path.split('/'))
RECURSIVE JoinWith(_, _)
JoinWith(parts, sep) ==
    IF Len(parts) <= 1 THEN Join(parts)
    ELSE Head(parts) \o <<sep>> \o JoinWith(Tail(parts), sep)

\* os.path.splitext(name)[0] of a name without a directory: the name up to
\* its last dot, when that dot follows a character that is not a dot.
Splitext(name) ==
    LET dots == {i \in 1..Len(name) : name[i] = "."}
        last == CHOOSE i \in dots : \A j \in dots : j <= i
    IN  IF dots = {} \/ \A i \in 1..(last - 1) : name[i] = "."
        THEN name
        ELSE SubSeq(name, 1, last - 1)

\* get_plugins(): the module names of the scripts check*.py of the folder,
\* in the order of the listing.
RECURSIVE GetPlugins(_)
GetPlugins(scripts) ==
    IF scripts = <<>> THEN <<>>
    ELSE LET script == Head(scripts)
             script_path == COMPLIANCE_CHECK_PLUGINS_FOLDER \o <<"/">> \o script
             module_name == JoinWith(Split(script_path, "/"), ".")
         IN  (IF StartsWith(script, <<"c", "h", "e", "c", "k">>)
                    /\ EndsWith(script, <<".", "p", "y">>)
              THEN <<Splitext(module_name)>>
              ELSE <<>>) \o GetPlugins(Tail(scripts))

\* load_plugin(plugin): the module, or None after an ImportError; any other
\* exception of the import is not caught.
LoadPlugin(plugin, w) ==
    CASE w[plugin] = "module" -> [raised |-> NoException, value |-> "module"]
      [] w[plugin] = "ImportError" -> [raised |-> NoException, value |-> "None"]
      [] OTHER -> [raised |-> w[plugin], value |-> "None"]

\* The loop of check_for_other_compliance from the i-th plugin on, with the
\* plugins loaded and run so far: `.run` of None is an AttributeError.
RECURSIVE RunPlugins(_, _, _, _, _)
RunPlugins(plugins, w, i, loaded, ran) ==
    IF i > Len(plugins)
    THEN [raised |-> NoException, loaded |-> loaded, ran |-> ran]
    ELSE LET compliance_check_plugin == LoadPlugin(plugins[i], w)
             now == Append(loaded, plugins[i])
         IN  IF compliance_check_plugin.raised # NoException
             THEN [raised |-> compliance_check_plugin.raised, loaded |-> now, ran |-> ran]
             ELSE IF compliance_check_plugin.value = "None"
             THEN [raised |-> "AttributeError", loaded |-> now, ran |-> ran]
             ELSE RunPlugins(plugins, w, i + 1, now, Append(ran, plugins[i]))

\* check_for_other_compliance(**kwargs), the check registered as
\* OtherComplianceCheck, with the keys it is passed.
OtherComplianceCheck(keys, scripts, w) ==
    IF "files_list" \notin keys
    THEN [raised |-> "KeyError", loaded |-> <<>>, ran |-> <<>>]
    ELSE RunPlugins(GetPlugins(scripts), w, 1, <<>>, <<>>)

\* Bounds and inputs of the plugin sub-check's specification: the keys
\* passed, the listing of the folder and what each import does.
MaxScripts == 3
ScriptNames ==
    { <<"c", "h", "e", "c", "k", "1", ".", "p", "y">>,
      <<"c", "h", "e", "c", "k", "2", ".", "p", "y">>,
      <<"c", "h", "e", "c", "k", "3", ".", "p", "y">>,
      <<"u", ".", "p", "y">> }
Listings ==
    {scripts \in UNION {[1..n -> ScriptNames] : n \in 0..MaxScripts} :
        \A i, j \in 1..Len(scripts) : i # j => scripts[i] # scripts[j]}
LoadOutcomes == {"module", "ImportError", "SyntaxError"}
KwargsGiven == {KwargsKeys, KwargsKeys \cup {"files_list"}}

PluginIdle ==
    /\ kwargs = {}
    /\ plugin_scripts = <<>>
    /\ plugin_world = <<>>
    /\ other_compliance = [raised |-> NoException, loaded |-> <<>>, ran |-> <<>>]

check_for_other_compliance(keys, scripts, w) ==
    /\ kwargs' = keys
    /\ plugin_scripts' = scripts
    /\ plugin_world' = w
    /\ other_compliance' = OtherComplianceCheck(keys, scripts, w)
    /\ pc' = "plugged"

(***************************************************************************)
(* code_complexity_check.CodeComplexity: the complexity check              *)
(***************************************************************************)

\* radon's cc_rank(cc): A up to 5, B up to 10, C up to 20, D up to 30, E up
\* to 40 and F above; a negative complexity is a ValueError.
CcRank(cc) ==
    IF cc < 0 THEN [raised |-> "ValueError", value |-> "A"]
    ELSE [raised |-> NoException,
          value |-> IF cc <= 5 THEN "A" ELSE IF cc <= 10 THEN "B"
                    ELSE IF cc <= 20 THEN "C" ELSE IF cc <= 30 THEN "D"
                    ELSE IF cc <= 40 THEN "E" ELSE "F"]

\* A list of ranks that leaves D out.
HighRanksTopTwo == {"E", "F"}

\* if cc_rk in ['D', 'E', 'F']
HighRanks == {"D", "E", "F"}

\* str(result) of a block of radon: its kind, place and name, a dash and its
\* complexity.
BlockText(cc_text) == <<"F", " ", "1", ":", "0", " ", "f", " ", "-", " ">> \o cc_text

\* sorted_results(blocks): the blocks by falling complexity, blocks of the
\* same complexity in their order.
RECURSIVE SortedResults(_)
SortedResults(blocks) ==
    IF blocks = <<>> THEN <<>>
    ELSE LET cc(i) == ParseInt(blocks[i]).value
             first == CHOOSE i \in 1..Len(blocks) :
                         /\ \A j \in 1..Len(blocks) : cc(j) <= cc(i)
                         /\ \A j \in 1..(i - 1) : cc(j) < cc(i)
         IN  <<blocks[first]>>
               \o SortedResults(SubSeq(blocks, 1, first - 1)
                                  \o SubSeq(blocks, first + 1, Len(blocks)))

\* The loop over the results of a file from the i-th on: the rank of the
\* first block that ends the process, or "none". A ValueError passes on to
\* the next block.
RECURSIVE CheckBlocks(_, _)
CheckBlocks(results, i) ==
    IF i > Len(results) THEN "none"
    ELSE LET component_result == BlockText(results[i])
             words == SplitWhitespace(component_result)
             cc == ParseInt(words[Len(words)])
             cc_rk == CcRank(cc.value)
         IN  IF cc.raised # NoException \/ cc_rk.raised # NoException
             THEN CheckBlocks(results, i + 1)
             ELSE IF cc_rk.value \in HighRanks THEN cc_rk.value
             ELSE CheckBlocks(results, i + 1)

\* The loop over the files from the i-th on, with the files found without
\* issues so far. cc_visit raises SyntaxError on a source it cannot parse;
\* nothing catches it, and the process ends with status 1 as with sys.exit(1).
RECURSIVE CheckComplexityFiles(_, _, _, _)
CheckComplexityFiles(files, w, i, passed) ==
    IF i > Len(files)
    THEN [raised |-> NoException, exit_status |-> 0, passed |-> passed, rank |-> "none"]
    ELSE IF w[files[i]].raised # NoException
    THEN [raised |-> w[files[i]].raised, exit_status |-> 1, passed |-> passed,
          rank |-> "none"]
    ELSE LET cc_rk == CheckBlocks(SortedResults(w[files[i]].blocks), 1)
         IN  IF cc_rk # "none"
             THEN [raised |-> "SystemExit", exit_status |-> 1, passed |-> passed,
                   rank |-> cc_rk]
             ELSE CheckComplexityFiles(files, w, i + 1, Append(passed, files[i]))

\* CodeComplexity.check(files_list)
CodeComplexityCheck(files, w) ==
    IF Truthy(files)
    THEN CheckComplexityFiles(FilterFiles(files), w, 1, <<>>)
    ELSE [raised |-> NoException, exit_status |-> 0, passed |-> <<>>, rank |-> "none"]

\* Bounds and inputs of the complexity check's specification: the files of
\* the set and, for each file the filter keeps, the complexities of its
\* blocks in the order of the source, or the error of parsing it.
MaxComplexityFiles == 2
ComplexityFileNames ==
    { <<"a", ".", "p", "y">>, <<"b", ".", "p", "y">>, <<"c", ".", "p", "y">>,
      <<"n", ".", "t", "x", "t">> }
ComplexityFileLists ==
    {files \in UNION {[1..n -> ComplexityFileNames] : n \in 0..MaxComplexityFiles} :
        \A i, j \in 1..Len(files) : i # j => files[i] # files[j]}
BlocksOfFile ==
    { <<>>, << <<"1">> >>, << <<"5">>, <<"2", "0">> >>, << <<"2", "0">>, <<"2", "1">> >>,
      << <<"3", "0">> >>, << <<"3", "1">>, <<"6">> >>, << <<"1", "1">>, <<"4", "1">> >> }
RadonWorlds(files) ==
    [Range(FilterFiles(files)) ->
        [raised : {NoException}, blocks : BlocksOfFile]
            \cup {[raised |-> "SyntaxError", blocks |-> <<>>]}]

ComplexityIdle ==
    /\ radon = <<>>
    /\ complexity = [raised |-> NoException, exit_status |-> 0, passed |-> <<>>,
                     rank |-> "none"]

code_complexity_check(files, w) ==
    /\ files_list' = files
    /\ radon' = w
    /\ complexity' = CodeComplexityCheck(files, w)
    /\ pc' = "ranked"

(***************************************************************************)
(* doc_compliance_check.DocCompliance: the doc-style check                 *)
(***************************************************************************)

\* A call that does not check the exit code.
DocCheckForExitCodeOff == FALSE

\* execute_shell_command(command=commands): is_check_for_exit_code is left
\* to its default.
DocCheckForExitCode == TRUE

\* commands = ['pep257']; commands.extend(files_list)
Pep257Command(files) == << <<"p", "e", "p", "2", "5", "7">> >> \o files

\* DocCompliance.check(files_list): the commands run, whether the pass
\* message is printed, and how the process ends.
DocComplianceCheck(files, tool) ==
    IF Truthy(files)
    THEN LET out == ExecuteShellCommand(tool.stdout, tool.returncode, DocCheckForExitCode)
         IN  IF out.raised = "CalledProcessError"
             THEN [raised |-> "SystemExit", exit_status |-> 1,
                   commands |-> <<Pep257Command(files)>>, passed |-> FALSE]
             ELSE [raised |-> NoException, exit_status |-> 0,
                   commands |-> <<Pep257Command(files)>>, passed |-> TRUE]
    ELSE [raised |-> NoException, exit_status |-> 0, commands |-> <<>>, passed |-> FALSE]

\* Bounds and inputs of the doc-style check's specification: the files, and
\* what the tool prints and returns.
MaxDocFiles == 2
DocFileNames ==
    { <<"a", ".", "p", "y">>, <<"b", ".", "p", "y">>, <<"n", ".", "t", "x", "t">> }
DocFileLists ==
    {files \in UNION {[1..n -> DocFileNames] : n \in 0..MaxDocFiles} :
        \A i, j \in 1..Len(files) : i # j => files[i] # files[j]}
Pep257Outcomes ==
    [stdout : {<<>>, <<"a", NL>>, <<"D", "1", "0", "0", NL>>,
               <<"D", "1", "0", "0", NL, "a", NL>>},
     returncode : {0, 1, 2, 127}]

DocIdle ==
    /\ pep257 = NoCommand
    /\ doc = [raised |-> NoException, exit_status |-> 0, commands |-> <<>>,
              passed |-> FALSE]

doc_compliance_check(files, tool) ==
    /\ files_list' = files
    /\ pep257' = tool
    /\ doc' = DocComplianceCheck(files, tool)
    /\ pc' = "documented"

(***************************************************************************)
(* The main functions of the five checks                                   *)
(***************************************************************************)

Programs == {"complexity", "lint", "doc", "coverage", "design"}

\* CoverageCheckCompliance.parse_args: the one option of the coverage
\* check, which takes two branch names.
CoverageParsedArgs ==
    [pre_merge_coverage_check :
        {NotGiven} \cup {<<s, t>> : s \in {Dev, Ft}, t \in {Dev, Ft}}]

\* The attribute of the namespace that get_files_list of the coverage check
\* reads for the two branch names.
CoverageBranchesAttribute == "preMergeCoverageCheck"

\* CoverageCheckCompliance.get_files_list: the diff of the two branches when
\* the option is given, the staged files otherwise. Reading an attribute the
\* namespace does not have raises AttributeError before the resolver is
\* called.
CoverageGetFilesList(a, r) ==
    LET branch == IF Truthy(a.pre_merge_coverage_check) THEN "pre_merge" ELSE "pre_commit"
        found ==
            IF branch = "pre_commit" THEN GetFilesToBeCommitted(r)
            ELSE IF CoverageBranchesAttribute \notin DOMAIN a
            THEN Raised("AttributeError", 0, <<>>)
            ELSE GetDiffBetweenBranches(r, a[CoverageBranchesAttribute][1],
                                        a[CoverageBranchesAttribute][2])
    IN  [raised |-> found.raised, returncode |-> found.returncode,
         value |-> found.value, cmds |-> found.cmds, ran |-> {branch}]

\* compliance.get_files_list(...) of the program's class: the four checks
\* built on the common driver call the driver's.
ProgramGetFilesList(prog, a, r) ==
    IF prog = "coverage" THEN CoverageGetFilesList(a, r) ELSE GetFilesList(a, r)

\* The command lines a program's parser accepts.
ProgramArgs(prog) == IF prog = "coverage" THEN CoverageParsedArgs ELSE ParsedArgs

\* An exception of get_files_list that leaves main carries on as if the
\* call had returned.
ResolveFailedNever(res) == FALSE

\* An exception of get_files_list propagates out of main.
ResolveFailed(res) == res.raised # NoException

\* A main that calls check whatever the file set.
ChecksFileSetAlways(prog, value) == TRUE

\* `if files_list:` of main; the main of the coverage check has no such test.
ChecksFileSet(prog, value) == prog = "coverage" \/ Truthy(value)

\* What no step of a main function changes.
outsideMain ==
    <<shellVars, filterVars, branches, change_list, lint_world, lint, coverageVars,
      designVars, pluginVars, complexityVars, docVars>>

\* --code_validators of the lint check: the default, or the names given.
\* The other checks have no such option.
ProgramValidators(prog) ==
    IF prog = "lint"
    THEN { <<"flake8">>, <<"pylint">>, <<"eslint">>, <<"flake8", "eslint">> }
    ELSE { <<>> }

MainIdle ==
    /\ program = "none"
    /\ phases = <<>>
    /\ exit_status = 0

\* The process starts: the command line is parsed in the directory.
main_start(prog, a, validators, r) ==
    /\ pc = "idle"
    /\ program' = prog
    /\ args' = a
    /\ code_validators' = validators
    /\ repo' = r
    /\ pc' = "resolve"
    /\ UNCHANGED <<resolved, phases, exit_status, outsideMain>>

\* files_list = compliance.get_files_list(...)
main_get_files_list ==
    /\ pc = "resolve"
    /\ resolved' = ProgramGetFilesList(program, args, repo)
    /\ phases' = Append(phases, "Resolve")
    /\ IF ResolveFailed(resolved')
       THEN pc' = "exit" /\ exit_status' = 1
       ELSE pc' = "resolved" /\ exit_status' = exit_status
    /\ UNCHANGED <<program, args, code_validators, repo, outsideMain>>

\* compliance.check(files_list): the check ends the process with status 1
\* or returns; the lint check raises when a validator is not supported.
main_check(status) ==
    /\ pc = "resolved"
    /\ ChecksFileSet(program, resolved.value)
    /\ (program = "lint" /\ ~AllSupported(code_validators)) => status = 1
    /\ phases' = Append(phases, "Check")
    /\ exit_status' = status
    /\ pc' = "exit"
    /\ UNCHANGED <<program, args, code_validators, repo, resolved, outsideMain>>

\* main returns without a check when the file set is empty.
main_return ==
    /\ pc = "resolved"
    /\ ~ChecksFileSet(program, resolved.value)
    /\ pc' = "exit"
    /\ UNCHANGED <<program, args, code_validators, repo, resolved, phases, exit_status,
                   outsideMain>>

(***************************************************************************)
(* Specifications                                                          *)
(***************************************************************************)

Init ==
    /\ pc = "idle"
    /\ ShellIdle
    /\ FilterIdle
    /\ GitIdle
    /\ DriverIdle
    /\ LintIdle
    /\ CoverageIdle
    /\ DesignIdle
    /\ PluginIdle
    /\ ComplexityIdle
    /\ DocIdle
    /\ MainIdle

\* Each specification is one process that makes one call of the operation
\* it is about, with every input and every answer of the outside world.
ShellNext ==
    /\ pc = "idle"
    /\ \E stdout \in Texts(StdoutAlphabet, MaxStdoutLen), rc \in ReturnCodes,
          check \in BOOLEAN :
            execute_shell_command(stdout, rc, check)
    /\ UNCHANGED <<filterVars, gitVars, driverVars, lintVars, coverageVars, designVars, laterVars>>

SpecShell == Init /\ [][ShellNext]_vars

FilterNext ==
    /\ pc = "idle"
    /\ \E files \in FilterInputs : filter_files(files)
    /\ UNCHANGED <<shellVars, gitVars, driverVars, lintVars, coverageVars, designVars, laterVars>>

SpecFilter == Init /\ [][FilterNext]_vars

GitNext ==
    /\ pc = "idle"
    /\ \/ \E r \in Repos : get_files_to_be_committed(r)
       \/ \E r \in Repos, source \in BranchArgs, target \in BranchArgs :
            get_diff_between_branches(r, source, target)
    /\ UNCHANGED <<shellVars, filterVars, driverVars, lintVars, coverageVars, designVars, laterVars>>

SpecGit == Init /\ [][GitNext]_vars

\* The driver passes both branch names, so HEAD is never asked for.
DriverRepos == {r \in Repos : r.head = [stdout |-> Dev \o <<NL>>, returncode |-> 0]}

DriverNext ==
    /\ pc = "idle"
    /\ \E a \in ParsedArgs, r \in DriverRepos : get_files_list(a, r)
    /\ UNCHANGED <<shellVars, filterVars, branches, change_list, lintVars, coverageVars, designVars, laterVars>>

SpecDriver == Init /\ [][DriverNext]_vars

LintNext ==
    /\ pc = "idle"
    /\ \E validators \in UNION {[1..n -> ValidatorNames] : n \in 0..MaxValidators},
          w \in LintWorlds :
            code_compliance_check(validators, w)
    /\ UNCHANGED <<shellVars, filterVars, gitVars, driverVars, coverageVars, designVars, laterVars>>

SpecLint == Init /\ [][LintNext]_vars

CoverageNext ==
    /\ pc = "idle"
    /\ \E indexes \in {x \in SUBSET (1..Len(CoverageFiles)) :
                          Cardinality(x) <= MaxCoverageFiles} :
          \E w \in PytestWorlds(Picked(indexes)) :
              check_coverage(Picked(indexes), w)
    /\ UNCHANGED <<shellVars, python_files, python_files_again, gitVars,
                   driverVars, lintVars, designVars, laterVars>>

SpecCoverage == Init /\ [][CoverageNext]_vars

DesignNext ==
    /\ pc = "idle"
    /\ \E files \in DesignFileLists, checks \in DefaultChecksArgs :
          \E srcs \in [Range(files) -> DesignSources] :
              design_compliance_check(files, srcs, checks)
    /\ UNCHANGED <<shellVars, python_files, python_files_again, gitVars,
                   driverVars, lintVars, coverageVars, laterVars>>

SpecDesign == Init /\ [][DesignNext]_vars

baseVars ==
    <<shellVars, filterVars, gitVars, driverVars, lintVars, coverageVars, designVars>>

PluginNext ==
    /\ pc = "idle"
    /\ \E keys \in KwargsGiven, scripts \in Listings :
          \E w \in [Range(GetPlugins(scripts)) -> LoadOutcomes] :
              check_for_other_compliance(keys, scripts, w)
    /\ UNCHANGED <<baseVars, complexityVars, docVars, mainVars>>

SpecPlugins == Init /\ [][PluginNext]_vars

ComplexityNext ==
    /\ pc = "idle"
    /\ \E files \in ComplexityFileLists :
          \E w \in RadonWorlds(files) : code_complexity_check(files, w)
    /\ UNCHANGED <<shellVars, python_files, python_files_again, gitVars, driverVars,
                   lintVars, coverageVars, designVars, pluginVars, docVars, mainVars>>

SpecComplexity == Init /\ [][ComplexityNext]_vars

DocNext ==
    /\ pc = "idle"
    /\ \E files \in DocFileLists, tool \in Pep257Outcomes :
          doc_compliance_check(files, tool)
    /\ UNCHANGED <<shellVars, python_files, python_files_again, gitVars, driverVars,
                   lintVars, coverageVars, designVars, pluginVars, complexityVars,
                   mainVars>>

SpecDoc == Init /\ [][DocNext]_vars

\* One process runs the main function of one of the five checks.
MainNext ==
    \/ \E prog \in Programs :
          \E a \in ProgramArgs(prog), validators \in ProgramValidators(prog),
             r \in DriverRepos :
                main_start(prog, a, validators, r)
    \/ main_get_files_list
    \/ \E status \in {0, 1} : main_check(status)
    \/ main_return

SpecMain == Init /\ [][MainNext]_vars

(***************************************************************************)
(* Properties of execute_shell_command                                     *)
(***************************************************************************)

\* The places of a text where a non-empty line starts.
LineStarts(text) ==
    {i \in 1..Len(text) : text[i] # NL /\ (i = 1 \/ text[i - 1] = NL)}

\* lines are the non-empty lines of text, whole and in their order: none is
\* empty, none holds a separator, there is one per line start, and together
\* they are the text without its separators.
IsNonEmptyLinesOf(lines, text) ==
    /\ \A i \in 1..Len(lines) : lines[i] # <<>>
    /\ \A i \in 1..Len(lines) : \A j \in 1..Len(lines[i]) : lines[i][j] # NL
    /\ Len(lines) = Cardinality(LineStarts(text))
    /\ Join(lines) = SelectSeq(text, LAMBDA c : c # NL)

IsBlank(line) == \A i \in 1..Len(line) : line[i] \in {" ", "\t"}

\* C9 as stated: the result is the lines of the output in their order, and no
\* returned line is empty or made of whitespace only.
C9_AsStated ==
    (pc = "done" /\ cmd_output.raised = NoException) =>
        /\ \A i \in 1..Len(cmd_output.lines) : ~IsBlank(cmd_output.lines[i])
        /\ cmd_output.lines
              = SelectSeq(Split(command.stdout, NL), LAMBDA l : ~IsBlank(l))

\* C9 amended: the result is the non-empty lines of the output, whole and in
\* their order; only the empty lines are dropped, and a line of whitespace
\* is returned like any other.
C9_NonEmptyLinesKept ==
    (pc = "done" /\ cmd_output.raised = NoException) =>
        IsNonEmptyLinesOf(cmd_output.lines, command.stdout)

\* An output with an empty line and a line of whitespace: the first is
\* dropped, the second returned.
C9_Witness ==
    /\ pc = "done"
    /\ command.stdout = <<"a", NL, NL, " ">>
    /\ cmd_output.lines = << <<"a">>, <<" ">> >>

\* C10: with the exit code checked, a non-zero exit raises CalledProcessError
\* with that exit code and no line is returned; with the check disabled the
\* call returns the output's lines whatever the exit code.
C10_ExitCodePolicy ==
    pc = "done" =>
        /\ (is_check_for_exit_code /\ command.returncode # 0) =>
              /\ cmd_output.raised = "CalledProcessError"
              /\ cmd_output.returncode = command.returncode
              /\ cmd_output.lines = <<>>
        /\ (~is_check_for_exit_code \/ command.returncode = 0) =>
              /\ cmd_output.raised = NoException
              /\ IsNonEmptyLinesOf(cmd_output.lines, command.stdout)

\* A failed process whose output is returned because the check is disabled.
C10_Witness ==
    /\ pc = "done"
    /\ ~is_check_for_exit_code
    /\ command.returncode = 128
    /\ cmd_output.raised = NoException
    /\ cmd_output.lines = << <<"a">> >>

(***************************************************************************)
(* Properties of the git resolvers and of the driver                       *)
(***************************************************************************)

InWorkTree == repo.probe = [stdout |-> <<"t", "r", "u", "e", NL>>, returncode |-> 0]

RanDiff(cmds) == \E i \in 1..Len(cmds) : IsDiff(cmds[i])

SameNamedBranches ==
    pc = "diffed" /\ branches[1] = branches[2] /\ branches[1] # None

\* C1 as stated: a call with source equal to target returns the empty list
\* and runs no git diff, whatever the state of the working directory.
C1_AsStated ==
    SameNamedBranches =>
        /\ change_list.raised = NoException
        /\ change_list.value = <<>>
        /\ ~RanDiff(change_list.cmds)

\* C1 amended: a call with source equal to target never runs git diff; it
\* returns the empty list when the work-tree probe answers 'true', and
\* raises instead when the probe exits non-zero or answers anything else.
C1_SameBranchNoDiff ==
    SameNamedBranches =>
        /\ ~RanDiff(change_list.cmds)
        /\ InWorkTree =>
              change_list.raised = NoException /\ change_list.value = <<>>
        /\ ~InWorkTree =>
              change_list.raised \in {"CalledProcessError", "NotValidGitRepoException"}

\* Inside a work tree whose diff would list files, the same branch twice
\* returns the empty list after the probe alone.
C1_Witness ==
    /\ pc = "diffed"
    /\ branches = <<Dev, Dev>>
    /\ InWorkTree
    /\ repo.diff = [stdout |-> <<"a", ".", "p", "y", NL, "b", NL>>, returncode |-> 0]
    /\ change_list = Returned(<<>>, <<ProbeCmd>>)

\* C11: outside a work tree (the probe answers anything but 'true', or exits
\* non-zero) get_files_to_be_committed and get_diff_between_branches with
\* source different from target fail with NotValidGitRepoException and no
\* other error, run no git diff and return no file list.
C11_NotInRepositoryError ==
    ((pc = "staged" \/ (pc = "diffed" /\ branches[1] # branches[2])) /\ ~InWorkTree) =>
        /\ change_list.raised = "NotValidGitRepoException"
        /\ ~RanDiff(change_list.cmds)
        /\ change_list.value = <<>>

\* The modes the command line asks for.
ModesGiven ==
    (IF args.pre_commit_check THEN {"pre_commit"} ELSE {})
        \cup (IF args.pre_merge_check # NotGiven THEN {"pre_merge"} ELSE {})
        \cup (IF args.path # NotGiven THEN {"path"} ELSE {})

\* The file set is the one the branch that ran resolves: the staged files,
\* the diff of the two branches named, or the paths as given.
FileSetOfBranchRun ==
    /\ resolved.ran = {"pre_commit"} =>
          /\ ~(\E i \in 1..Len(resolved.cmds) : resolved.cmds[i].git = DiffCmd(<<>>, <<>>).git)
          /\ resolved.raised = NoException =>
                /\ IsNonEmptyLinesOf(resolved.value, repo.staged.stdout)
                /\ resolved.cmds = <<ProbeCmd, StagedCmd>>
    /\ resolved.ran = {"pre_merge"} =>
          /\ StagedCmd \notin {resolved.cmds[i] : i \in 1..Len(resolved.cmds)}
          /\ (resolved.raised = NoException
                /\ args.pre_merge_check[1] # args.pre_merge_check[2]) =>
                /\ IsNonEmptyLinesOf(resolved.value, repo.diff.stdout)
                /\ resolved.cmds
                     = <<ProbeCmd, DiffCmd(args.pre_merge_check[1], args.pre_merge_check[2])>>
    /\ resolved.ran = {"path"} =>
          /\ resolved.raised = NoException
          /\ resolved.value = args.path
          /\ resolved.cmds = <<>>

\* C2 as stated: for every command line the parser accepts, exactly one mode
\* is active and exactly one resolution branch runs, and the file set is the
\* one of that mode.
C2_AsStated ==
    pc = "resolved" =>
        /\ Cardinality(ModesGiven) = 1
        /\ resolved.ran = ModesGiven
        /\ FileSetOfBranchRun

\* C2 amended: for every command line the parser accepts, at most one
\* resolution branch runs: one of the modes given when a mode is given, and
\* none when no mode is given, and then the file set is empty and no git
\* command is run; the file set is the one of the branch that ran.
C2_AtMostOneBranch ==
    pc = "resolved" =>
        /\ Cardinality(resolved.ran) <= 1
        /\ resolved.ran \subseteq ModesGiven
        /\ ModesGiven # {} => Cardinality(resolved.ran) = 1
        /\ ModesGiven = {} =>
              /\ resolved.ran = {}
              /\ resolved.raised = NoException
              /\ resolved.value = <<>>
              /\ resolved.cmds = <<>>
        /\ FileSetOfBranchRun

\* All three modes given at once, in a work tree: the staged files alone
\* are resolved.
C2_Witness ==
    /\ pc = "resolved"
    /\ ModesGiven = {"pre_commit", "pre_merge", "path"}
    /\ InWorkTree
    /\ resolved.ran = {"pre_commit"}
    /\ resolved.raised = NoException
    /\ resolved.value = << <<"a", ".", "p", "y">>, <<"b">> >>

\* The mode of highest precedence among the modes given: pre-commit over
\* pre-merge over explicit paths.
HighestModeGiven ==
    IF "pre_commit" \in ModesGiven THEN "pre_commit"
    ELSE IF "pre_merge" \in ModesGiven THEN "pre_merge"
    ELSE "path"

\* C22: when more than one mode flag is given, the resolver of the mode of
\* highest precedence alone is invoked, and the file set is the one that
\* resolver returns for its own arguments, whatever the arguments of the
\* other modes.
C22_ModePrecedence ==
    (pc = "resolved" /\ Cardinality(ModesGiven) > 1) =>
        LET only ==
              CASE HighestModeGiven = "pre_commit" -> GetFilesToBeCommitted(repo)
                [] HighestModeGiven = "pre_merge" ->
                      GetDiffBetweenBranches(repo, args.pre_merge_check[1],
                                             args.pre_merge_check[2])
                [] OTHER -> Returned(args.path, <<>>)
        IN  /\ resolved.ran = {HighestModeGiven}
            /\ resolved.raised = only.raised
            /\ resolved.returncode = only.returncode
            /\ resolved.value = only.value
            /\ resolved.cmds = only.cmds

\* The pre-merge mode and a path given together, in a work tree: the diff
\* of the two branches is the file set and the path is left aside.
C22_Witness ==
    /\ pc = "resolved"
    /\ ModesGiven = {"pre_merge", "path"}
    /\ args.pre_merge_check = <<Dev, Ft>>
    /\ args.path = << <<"b">> >>
    /\ InWorkTree
    /\ resolved.ran = {"pre_merge"}
    /\ resolved.cmds = <<ProbeCmd, DiffCmd(Dev, Ft)>>
    /\ resolved.value = << <<"a", ".", "p", "y">>, <<"b">> >>

(***************************************************************************)
(* Properties of the lint check                                            *)
(***************************************************************************)

\* C3: when a validator name asked for is not in the supported map, check
\* fails with the unsupported-validator error before any back-end is
\* invoked, wherever the name stands in the list and whatever else is asked.
C3_UnsupportedRejectedFirst ==
    (pc = "linted"
        /\ \E i \in 1..Len(code_validators) :
              code_validators[i] \notin {"flake8", "pylint"}) =>
        /\ lint.raised = "ComplianceViolationException"
        /\ lint.invoked = <<>>

\* flake8, which would have found errors, asked for before eslint.
C3_Witness ==
    /\ pc = "linted"
    /\ code_validators = <<"flake8", "eslint">>
    /\ lint_world.flake8_errors > 0
    /\ lint.raised = "ComplianceViolationException"
    /\ lint.invoked = <<>>

\* What the back-ends find, read off the inputs: whether a validator asked
\* for reports a finding on the files.
ReportsFinding(validator) ==
    \/ validator = "flake8" /\ lint_world.flake8_errors > 0
    \/ validator = "pylint"
          /\ \E f \in 1..Len(lint_world.pylint_errors) : lint_world.pylint_errors[f] > 0

\* C14: with supported validators, the lint check ends with exit status 1
\* exactly when a validator asked for reports a finding; with pylint and a
\* non-empty file set without finding it does not exit with status 1.
C14_ExitOnFindingOnly ==
    (pc = "linted" /\ AllSupported(code_validators)) =>
        (lint.exit_status = 1
            <=> \E i \in 1..Len(code_validators) : ReportsFinding(code_validators[i]))

(***************************************************************************)
(* Properties of the coverage check                                        *)
(***************************************************************************)

\* What the changed files and the report say, read off the inputs: the
\* Python files, the directory a file is in and that directory's own name,
\* and the number a well-formed percentage text stands for.
EndsInDotPy(path) ==
    Len(path) >= 4 /\ SubSeq(path, Len(path) - 2, Len(path)) = <<".", "p", "y">>
ChangedPython == {f \in Range(files_list) : EndsInDotPy(f)}
Components(path) == Split(path, "/")
ParentName(path) ==
    IF Len(Components(path)) < 2 THEN <<>>
    ELSE Components(path)[Len(Components(path)) - 1]
ParentDir(path) ==
    SubSeq(path, 1, Len(path) - Len(Components(path)[Len(Components(path))]) - 1)
PctNumber ==
    (<<"7", "9", "%">> :> 79) @@ (<<"8", "0", "%">> :> 80) @@ (<<"8", "7", "%">> :> 87)
Reported(f) == f \in DOMAIN pytest.report
ViolationOf(f) == f \o <<" ", "-", ">", " ">> \o pytest.report[f]
IsViolationOf(v, f) ==
    Len(v) >= Len(f) + 4 /\ SubSeq(v, 1, Len(f) + 4) = f \o <<" ", "-", ">", " ">>
Flagged(f) == Reported(f) /\ ViolationOf(f) \in coverage.files_missing_coverage

\* C4: a changed Python file with an entry in the report and a parent
\* directory that is not ignored is flagged exactly when its percentage is
\* below 80, with the percentage text of the report in the message; and the
\* exit status is 1 exactly when a file is flagged.
C4_FlaggedBelowCutOff ==
    pc = "covered" =>
        /\ \A f \in ChangedPython :
              (/\ Reported(f)
               /\ pytest.report[f] \in DOMAIN PctNumber
               /\ ParentName(f) \notin IGNORE_LIST) =>
                  (Flagged(f) <=> PctNumber[pytest.report[f]] < 80)
        /\ coverage.files_missing_coverage \subseteq
              {ViolationOf(f) : f \in {g \in ChangedPython : Reported(g)}}
        /\ coverage.exit_status = 1 <=> \E f \in ChangedPython : Flagged(f)
        /\ coverage.exit_status \in {0, 1}

\* One file at 79% and one at 80%: the first alone is flagged.
C4_Witness ==
    /\ pc = "covered"
    /\ files_list = << <<"a", "/", "x", ".", "p", "y">>, <<"b", "/", "z", ".", "p", "y">> >>
    /\ \A f \in Range(files_list) : Reported(f)
    /\ pytest.report[<<"a", "/", "x", ".", "p", "y">>] = <<"7", "9", "%">>
    /\ pytest.report[<<"b", "/", "z", ".", "p", "y">>] = <<"8", "0", "%">>
    /\ coverage.files_missing_coverage
         = { <<"a", "/", "x", ".", "p", "y", " ", "-", ">", " ", "7", "9", "%">> }
    /\ coverage.exit_status = 1

\* C5: a file whose parent directory's name is in the ignore list is never
\* among the violations, whatever its percentage, and a change of such
\* files alone does not end with exit status 1.
C5_IgnoredNeverFlagged ==
    pc = "covered" =>
        /\ \A f \in Range(files_list) :
              ParentName(f) \in IGNORE_LIST =>
                  \A v \in coverage.files_missing_coverage : ~IsViolationOf(v, f)
        /\ (\A f \in ChangedPython : ParentName(f) \in IGNORE_LIST) =>
              coverage.exit_status = 0

\* Two files under tests directories, both reported at 79%.
C5_Witness ==
    /\ pc = "covered"
    /\ files_list = << <<"a", "/", "t", "e", "s", "t", "s", "/", "u", ".", "p", "y">>,
                       <<"t", "e", "s", "t", "s", "/", "t", ".", "p", "y">> >>
    /\ \A f \in Range(files_list) : Reported(f) /\ pytest.report[f] = <<"7", "9", "%">>
    /\ coverage.files_missing_coverage = {}
    /\ coverage.exit_status = 0

\* C6: get_coverage is invoked once for each distinct parent directory of
\* the Python files of the file set, and for no other directory.
C6_OneRunPerDirectory ==
    pc = "covered" =>
        /\ Range(coverage.runs) = {ParentDir(f) : f \in ChangedPython}
        /\ Len(coverage.runs) = Cardinality({ParentDir(f) : f \in ChangedPython})

\* a/x.py, a/y.py and b/z.py: two runs, one for a and one for b.
C6_Witness ==
    /\ pc = "covered"
    /\ files_list = << <<"a", "/", "x", ".", "p", "y">>, <<"a", "/", "y", ".", "p", "y">>,
                       <<"b", "/", "z", ".", "p", "y">> >>
    /\ Len(coverage.runs) = 2
    /\ Range(coverage.runs) = { <<"a">>, <<"b">> }

\* C18: a file whose reported percentage int() refuses is logged and is not
\* among the violations, and the other files are still held against the
\* cut-off: the run ends with the exit status their percentages give.
C18_UnparsedPctSkipped ==
    pc = "covered" =>
        /\ \A f \in ChangedPython :
              (/\ Reported(f)
               /\ pytest.report[f] \notin DOMAIN PctNumber
               /\ ParentName(f) \notin IGNORE_LIST) =>
                  /\ f \in coverage.errors
                  /\ \A v \in coverage.files_missing_coverage : ~IsViolationOf(v, f)
        /\ \A f \in ChangedPython :
              (/\ Reported(f)
               /\ pytest.report[f] \in DOMAIN PctNumber
               /\ ParentName(f) \notin IGNORE_LIST) =>
                  /\ f \notin coverage.errors
                  /\ Flagged(f) <=> PctNumber[pytest.report[f]] < 80
        /\ coverage.exit_status = IF coverage.files_missing_coverage = {} THEN 0 ELSE 1

\* 7x% for the first file and 79% for the second: the first is logged, the
\* second flagged.
C18_Witness ==
    /\ pc = "covered"
    /\ files_list = << <<"a", "/", "x", ".", "p", "y">>, <<"b", "/", "z", ".", "p", "y">> >>
    /\ \A f \in Range(files_list) : Reported(f)
    /\ pytest.report[<<"a", "/", "x", ".", "p", "y">>] = <<"7", "x", "%">>
    /\ pytest.report[<<"b", "/", "z", ".", "p", "y">>] = <<"7", "9", "%">>
    /\ coverage.errors = { <<"a", "/", "x", ".", "p", "y">> }
    /\ coverage.files_missing_coverage
         = { <<"b", "/", "z", ".", "p", "y", " ", "-", ">", " ", "7", "9", "%">> }
    /\ coverage.exit_status = 1

(***************************************************************************)
(* Properties of the design check                                          *)
(***************************************************************************)

CallsPrint(f) == \E i \in 1..Len(sources[f].calls) : sources[f].calls[i] = "print"

PrintFlags(f) ==
    {i \in 1..Len(design.printed) :
        design.printed[i] = [file |-> f, message |-> "contains print statements!"]}

\* C7: the design check of a file set with a file that calls print flags
\* that file for print statements once, however many print calls it holds,
\* and ends with exit status 1.
C7_PrintFlaggedOnce ==
    (pc = "designed" /\ \E f \in Range(files_list) : CallsPrint(f)) =>
        /\ \A f \in Range(files_list) : CallsPrint(f) => Cardinality(PrintFlags(f)) = 1
        /\ design.exit_status = 1

\* The list of enabled checks of the object: the list given to the
\* constructor, or the default list.
EnabledChecks ==
    IF default_checks = NotGiven
    THEN {"DebugEnabledCheck", "OtherComplianceCheck"}
    ELSE Range(default_checks)

\* C19: for every file of the set, a registered sub-check is run on the
\* file exactly when its name is in the list of enabled checks; with the
\* default list both DebugEnabledCheck and OtherComplianceCheck run.
C19_EnabledChecksRun ==
    pc = "designed" =>
        \A f \in Range(files_list) : \A name \in Range(Register) :
            (<<name, f>> \in Range(design.called)) <=> name \in EnabledChecks

(***************************************************************************)
(* Properties of the complexity check                                      *)
(***************************************************************************)

\* The Python files of the set, the number a complexity text stands for,
\* and the files with a block of complexity 21 or more.
CheckedPython == {f \in Range(files_list) : EndsInDotPy(f)}
ComplexityNumber ==
    (<<"1">> :> 1) @@ (<<"5">> :> 5) @@ (<<"6">> :> 6) @@ (<<"1", "1">> :> 11)
        @@ (<<"2", "0">> :> 20) @@ (<<"2", "1">> :> 21) @@ (<<"3", "0">> :> 30)
        @@ (<<"3", "1">> :> 31) @@ (<<"4", "1">> :> 41)
HasHighBlock(f) ==
    \E i \in 1..Len(radon[f].blocks) : ComplexityNumber[radon[f].blocks[i]] >= 21
Unparsable(f) == radon[f].raised # NoException

\* C13 as stated: the complexity check ends with exit status 1 exactly when
\* some block of some Python file of the set has a complexity of 21 or
\* more; otherwise it reports no issues for each file and ends with 0.
C13_AsStated ==
    pc = "ranked" =>
        /\ complexity.exit_status = 1 <=> \E f \in CheckedPython : HasHighBlock(f)
        /\ (\A f \in CheckedPython : ~HasHighBlock(f)) =>
              /\ complexity.exit_status = 0
              /\ Range(complexity.passed) = CheckedPython

\* C13 amended: the complexity check ends with exit status 1 exactly when
\* some Python file of the set has a block of complexity 21 or more or is a
\* source radon cannot parse; when every file parses and every block ranks
\* A, B or C it reports no issues for each file, in the order of the set,
\* and ends with exit status 0.
C13_HighRankOrUnparsable ==
    pc = "ranked" =>
        /\ complexity.exit_status \in {0, 1}
        /\ complexity.exit_status = 1
              <=> \E f \in CheckedPython : HasHighBlock(f) \/ Unparsable(f)
        /\ (\A f \in CheckedPython : ~HasHighBlock(f) /\ ~Unparsable(f)) =>
              /\ complexity.raised = NoException
              /\ complexity.passed = SelectSeq(files_list, EndsInDotPy)
        /\ complexity.raised = "SystemExit" => complexity.rank \in {"D", "E", "F"}

\* A file of complexities 5 and 20 passes and a file of complexities 20 and
\* 21 ends the run with rank D.
C13_Witness ==
    /\ pc = "ranked"
    /\ files_list = << <<"a", ".", "p", "y">>, <<"b", ".", "p", "y">> >>
    /\ radon[<<"a", ".", "p", "y">>].blocks = << <<"5">>, <<"2", "0">> >>
    /\ radon[<<"b", ".", "p", "y">>].blocks = << <<"2", "0">>, <<"2", "1">> >>
    /\ complexity.passed = << <<"a", ".", "p", "y">> >>
    /\ complexity.rank = "D"
    /\ complexity.exit_status = 1

(***************************************************************************)
(* Properties of the doc-style check                                       *)
(***************************************************************************)

\* C15: on a non-empty file set the doc-style check runs the docstring tool
\* once, with all the files of the set as its arguments, and ends with exit
\* status 1 exactly when the tool exits non-zero; when the tool exits zero
\* the pass message is printed and the status is not 1.
C15_ExitIffToolFails ==
    (pc = "documented" /\ files_list # <<>>) =>
        /\ Len(doc.commands) = 1
        /\ Head(doc.commands)[1] = <<"p", "e", "p", "2", "5", "7">>
        /\ Tail(Head(doc.commands)) = files_list
        /\ doc.exit_status = 1 <=> pep257.returncode # 0
        /\ pep257.returncode = 0 => (doc.passed /\ doc.exit_status = 0)
        /\ pep257.returncode # 0 => ~doc.passed

\* The tool prints a violation and exits 1 on two files: the check exits 1
\* after the one run.
C15_Witness ==
    /\ pc = "documented"
    /\ files_list = << <<"a", ".", "p", "y">>, <<"n", ".", "t", "x", "t">> >>
    /\ pep257 = [stdout |-> <<"D", "1", "0", "0", NL, "a", NL>>, returncode |-> 1]
    /\ doc.commands = << << <<"p", "e", "p", "2", "5", "7">>, <<"a", ".", "p", "y">>,
                            <<"n", ".", "t", "x", "t">> >> >>
    /\ doc.exit_status = 1

(***************************************************************************)
(* Properties of the main functions                                        *)
(***************************************************************************)

\* C16: in every run of every check the Check phase comes after a Resolve
\* phase that returned the file set, and is never executed when Resolve
\* raised.
C16_ResolveBeforeCheck ==
    /\ \A i \in 1..Len(phases) :
          phases[i] = "Check" =>
              /\ i = 2
              /\ phases[1] = "Resolve"
              /\ resolved.raised = NoException
    /\ (phases # <<>> /\ resolved.raised # NoException) => phases = <<"Resolve">>
    /\ pc = "resolve" => phases = <<>>

\* The lint check with a path given: Resolve, then Check.
C16_Witness ==
    /\ program = "lint"
    /\ pc = "exit"
    /\ phases = <<"Resolve", "Check">>
    /\ resolved.value = << <<"a", ".", "p", "y">> >>

\* The mode and the mode arguments of the run, as a command line of the
\* common driver: the coverage check asks for the pre-merge mode with its
\* option and for the pre-commit mode without it.
ModeOfRun ==
    IF program # "coverage" THEN args
    ELSE [pre_commit_check |-> args.pre_merge_coverage_check = NotGiven,
          pre_merge_check |-> args.pre_merge_coverage_check,
          path |-> NotGiven]

\* C17: each of the five checks resolves the file set the common driver
\* resolves for the same mode, mode arguments and repository; the coverage
\* check in pre-merge mode obtains the diff of the two branches named.
C17_SameResolveStep ==
    (program \in Programs /\ phases # <<>>) =>
        LET common == GetFilesList(ModeOfRun, repo)
        IN  /\ resolved.raised = common.raised
            /\ resolved.value = common.value
            /\ resolved.cmds = common.cmds

\* C21: a run of the complexity, lint, doc-style or design check whose
\* Resolve phase returns the empty file set never executes the Check phase
\* and ends with exit status 0, whatever validators the lint check is asked
\* for.
C21_EmptyFileSetSkipsCheck ==
    (/\ program \in Programs \ {"coverage"}
     /\ phases # <<>>
     /\ resolved.raised = NoException
     /\ resolved.value = <<>>) =>
        /\ phases = <<"Resolve">>
        /\ exit_status = 0
        /\ pc \in {"resolved", "exit"}

\* The lint check asked for eslint with no mode flag: it ends after Resolve
\* with status 0.
C21_Witness ==
    /\ program = "lint"
    /\ code_validators = <<"eslint">>
    /\ ModesGiven = {}
    /\ pc = "exit"
    /\ phases = <<"Resolve">>
    /\ resolved.value = <<>>
    /\ exit_status = 0

(***************************************************************************)
(* Properties of the plugin sub-check                                      *)
(***************************************************************************)

\* C12: a plugin whose load fails is skipped: the plugin sub-check, given
\* the file list, raises nothing, goes on to load every plugin discovered
\* and runs every plugin whose load succeeded, in the order of discovery.
C12_FailedLoadSkipped ==
    (pc = "plugged" /\ "files_list" \in kwargs) =>
        /\ other_compliance.raised = NoException
        /\ other_compliance.loaded = GetPlugins(plugin_scripts)
        /\ other_compliance.ran
             = SelectSeq(GetPlugins(plugin_scripts),
                         LAMBDA plugin : plugin_world[plugin] = "module")

(***************************************************************************)
(* Properties of filter_files                                              *)
(***************************************************************************)

\* C8: filter_files is idempotent: filtering its own result returns that
\* result, with the same paths in the same order.
C8_FilterIdempotent ==
    pc = "done" => python_files_again = python_files

\* A list of which the filter drops one path, keeps one and cuts the last
\* newline of one.
C8_Witness ==
    /\ pc = "done"
    /\ files_list = << <<"a", ".", "p", "y", "c">>, <<"a", ".", "p", "y", NL>>,
                       <<"a", "p", "y">> >>
    /\ python_files = << <<"a", ".", "p", "y">>, <<"a", "p", "y">> >>
    /\ python_files_again = python_files

\* C20: filter_files returns the paths of the list that end in a name, a
\* dot and py (four characters or more), unchanged and in their order, and
\* no other path: a path that ends in py without the dot is not kept.
C20_KeepsExactlyDotPy ==
    pc = "done" => python_files = SelectSeq(files_list, EndsInDotPy)

=============================================================================
